---- MODULE Spec2Model ----
(***************************************************************************)
(* Model of the lead-capture backend in src/main.py: the submission        *)
(* handler create_lead, its two background notifications, the mail helper  *)
(* _send_email and the confirmation handler confirm_waitlist.              *)
(***************************************************************************)
EXTENDS Integers, Sequences, FiniteSets, Bags, TLC

(* ------------------------------ bounds --------------------------------- *)
\* HTTP requests (submissions and confirmations together) in one behaviour
MaxRequests == 3

(* ------------------------------ values --------------------------------- *)
None == "None"

\* secrets.token_urlsafe draws from the base64url alphabet: two tokens over
\* its characters stand for the 43-character results
TokenChars == {"A", "_", "-"}
Tokens == { <<"A", "_">>, <<"-", "A">> }

\* what a caller of /api/confirm may send: a token that submissions may have
\* been given, or a string token_urlsafe can never produce
MalformedToken == <<"?">>
ConfirmInputs == { <<"A", "_">>, MalformedToken }

\* valid submissions (the Lead schema already accepted them)
Leads ==
  { [name |-> "A", company |-> "B", email |-> "a@b.com", interest |-> "x",
     purpose |-> "y", consent |-> TRUE, message |-> None],
    [name |-> "C", company |-> "D", email |-> "c@d.com", interest |-> "x",
     purpose |-> "y", consent |-> TRUE, message |-> "hi"] }

VARIABLES
  store,            \* the "lead" collection: id -> document
  nextId,           \* ids the store has handed out so far
  smtpConfigured,   \* SMTP_HOST, SMTP_USERNAME and SMTP_PASSWORD are all set
  frontendUrl,      \* FRONTEND_URL is set
  submitLog,        \* one entry per POST /api/leads: input, response, history
  bg,               \* per request: the background tasks still to run
  outbox,           \* bag of the messages handed to the SMTP server
  console,          \* bag of the [EMAIL-FALLBACK] messages printed
  taskLog,          \* per request: how each of its tasks that ran has ended
  confirmLog        \* one entry per GET /api/confirm: token, state, response

vars == <<store, nextId, smtpConfigured, frontendUrl,
          submitLog, bg, outbox, console, taskLog, confirmLog>>

(* --------------------------- pure helpers ------------------------------ *)

\* urllib.parse.quote_plus on one character: unreserved characters are kept,
\* a space becomes "+", anything else is percent-encoded
quote_plus_char(c) ==
  IF c \in {"A", "_", "-", ".", "~"} THEN <<c>>
  ELSE IF c = " " THEN <<"+">>
  ELSE IF c = "?" THEN <<"%", "3", "F">>
  ELSE <<"%", "X", "X">>

RECURSIVE quote_plus(_)
quote_plus(s) ==
  IF s = <<>> THEN <<>> ELSE quote_plus_char(Head(s)) \o quote_plus(Tail(s))

\* the confirmation link of send_double_opt_in
confirm_url(token) ==
  IF frontendUrl
    THEN [base |-> "FRONTEND_URL", path |-> "/confirm", token |-> quote_plus(token)]
    ELSE [base |-> "", path |-> "/confirm", token |-> token]

\* the admin mail body of notify_admin_waitlist
admin_body(lead) ==
  [Name |-> lead.name, Firma |-> lead.company, EMail |-> lead.email,
   Interesse |-> lead.interest, Zweck |-> lead.purpose,
   Einwilligung |-> lead.consent,
   Nachricht |-> IF lead.message = None THEN "-" ELSE lead.message]

\* _send_email: console fallback when SMTP is not configured, otherwise the
\* SMTP conversation, whose exceptions are not caught; transportUp says
\* whether the server answers and accepts the login this time
_send_email(subject, body, to_email, transportUp) ==
  IF ~smtpConfigured
    THEN [outcome |-> "fallback",
          console |-> console (+) SetToBag({[to |-> to_email, subject |-> subject, body |-> body]}),
          outbox |-> outbox]
  ELSE IF transportUp
    THEN [outcome |-> "sent",
          console |-> console,
          outbox |-> outbox (+) SetToBag({[to |-> to_email, subject |-> subject, body |-> body]})]
  ELSE [outcome |-> "raised", console |-> console, outbox |-> outbox]

notify_admin_waitlist(lead, transportUp) ==
  _send_email("Neuer Warteliste/Lead", admin_body(lead), "ADMIN_EMAIL", transportUp)

send_double_opt_in(to_email, token, transportUp) ==
  _send_email("Bitte bestaetige deine Anmeldung", confirm_url(token), to_email, transportUp)

\* database.create_document: insert the document and return its id as a
\* string, or raise when the store does not accept the write (dbUp false)
create_document(data, dbUp) ==
  IF dbUp
    THEN [ok |-> TRUE, id |-> <<nextId + 1>>,
          store |-> [i \in DOMAIN store \cup {<<nextId + 1>>} |->
                       IF i = <<nextId + 1>> THEN data ELSE store[i]]]
    ELSE [ok |-> FALSE, id |-> <<>>, store |-> store]

LeadDocument(lead, token) ==
  [lead |-> lead, status |-> "pending", confirm_token |-> token, confirmed_at |-> None]

\* some pending record carries this token
HasPending(token) ==
  \E id \in DOMAIN store :
    store[id].status = "pending" /\ store[id].confirm_token = token

\* create_lead returning before lead_id is bound to the response
create_lead_emptyId(lead, token, dbUp) ==
  LET r == create_document(LeadDocument(lead, token), dbUp) IN
  IF r.ok
    THEN [status |-> 200,
          body |-> [success |-> TRUE, id |-> <<>>, double_opt_in |-> TRUE],
          store |-> r.store,
          tasks |-> << [fn |-> "notify_admin_waitlist", lead |-> lead],
                       [fn |-> "send_double_opt_in", to |-> lead.email, token |-> token] >>,
          created |-> r.id]
    ELSE [status |-> 500, body |-> [detail |-> "store unavailable"],
          store |-> r.store, tasks |-> <<>>, created |-> <<>>]

\* create_lead with the exception of create_document swallowed
create_lead_swallow(lead, token, dbUp) ==
  LET r == create_document(LeadDocument(lead, token), dbUp) IN
  [status |-> 200,
   body |-> [success |-> TRUE, id |-> r.id, double_opt_in |-> TRUE],
   store |-> r.store,
   tasks |-> IF r.ok
               THEN << [fn |-> "notify_admin_waitlist", lead |-> lead],
                       [fn |-> "send_double_opt_in", to |-> lead.email, token |-> token] >>
               ELSE <<>>,
   created |-> r.id]

\* create_lead with the two add_task calls placed before create_document
create_lead_enqueueFirst(lead, token, dbUp) ==
  LET r == create_document(LeadDocument(lead, token), dbUp) IN
  [status |-> IF r.ok THEN 200 ELSE 500,
   body |-> IF r.ok THEN [success |-> TRUE, id |-> r.id, double_opt_in |-> TRUE]
                    ELSE [detail |-> "store unavailable"],
   store |-> r.store,
   tasks |-> << [fn |-> "notify_admin_waitlist", lead |-> lead],
                [fn |-> "send_double_opt_in", to |-> lead.email, token |-> token] >>,
   created |-> r.id]

\* create_lead: the handler's response, the store afterwards, the tasks it
\* enqueued, and (history) the id create_document returned, <<>> if it raised
create_lead(lead, token, dbUp) ==
  LET r == create_document(LeadDocument(lead, token), dbUp) IN
  IF r.ok
    THEN [status |-> 200,
          body |-> [success |-> TRUE, id |-> r.id, double_opt_in |-> TRUE],
          store |-> r.store,
          tasks |-> << [fn |-> "notify_admin_waitlist", lead |-> lead],
                       [fn |-> "send_double_opt_in", to |-> lead.email, token |-> token] >>,
          created |-> r.id]
    ELSE [status |-> 500,
          body |-> [detail |-> "store unavailable"],
          store |-> r.store,
          tasks |-> <<>>,
          created |-> <<>>]

\* confirm_waitlist updating by token but forgetting the timestamp
confirm_waitlist_noStamp(token) ==
  [store |-> [id \in DOMAIN store |->
                IF store[id].confirm_token = token /\ store[id].status = "pending"
                  THEN [store[id] EXCEPT !.status = "confirmed"]
                  ELSE store[id]],
   body |-> [success |-> TRUE, message |-> "Anmeldung bestaetigt"]]

\* confirm_waitlist updating without the token in its filter
confirm_waitlist_noFilter(token) ==
  [store |-> [id \in DOMAIN store |->
                IF store[id].status = "pending"
                  THEN [store[id] EXCEPT !.status = "confirmed", !.confirmed_at = "now"]
                  ELSE store[id]],
   body |-> [success |-> TRUE, message |-> "Anmeldung bestaetigt"]]

\* confirm_waitlist: the placeholder answer; the store is not touched
confirm_waitlist(token) ==
  [store |-> store,
   body |-> [success |-> TRUE, message |-> "Anmeldung bestaetigt"]]

(* ------------------------------ actions -------------------------------- *)

Init ==
  /\ store = << >>
  /\ nextId = 0
  /\ smtpConfigured \in BOOLEAN
  /\ frontendUrl \in BOOLEAN
  /\ submitLog = <<>>
  /\ bg = <<>>
  /\ outbox = EmptyBag
  /\ console = EmptyBag
  /\ taskLog = <<>>
  /\ confirmLog = <<>>

\* POST /api/leads
Submit(lead, token, dbUp) ==
  /\ Len(submitLog) + Len(confirmLog) < MaxRequests
  /\ LET r == create_lead(lead, token, dbUp) IN
       /\ store' = r.store
       /\ nextId' = IF r.created = <<>> THEN nextId ELSE nextId + 1
       /\ submitLog' = Append(submitLog,
             [lead |-> lead, token |-> token, created |-> r.created,
              status |-> r.status, body |-> r.body])
       /\ bg' = Append(bg, r.tasks)
       /\ taskLog' = Append(taskLog, <<>>)
  /\ UNCHANGED <<smtpConfigured, frontendUrl, outbox,
                 console, confirmLog>>

\* the admin notification run inside the request: its exception becomes the
\* response of the request
RunNotifyAdmin_surfacing(q, transportUp) ==
  /\ q \in DOMAIN bg
  /\ bg[q] # <<>>
  /\ Head(bg[q]).fn = "notify_admin_waitlist"
  /\ LET r == notify_admin_waitlist(Head(bg[q]).lead, transportUp) IN
       /\ outbox' = r.outbox
       /\ console' = r.console
       /\ taskLog' = [taskLog EXCEPT ![q] = Append(@, [fn |-> "notify_admin_waitlist", outcome |-> r.outcome])]
       /\ bg' = [bg EXCEPT ![q] = IF r.outcome = "raised" THEN <<>> ELSE Tail(bg[q])]
       /\ submitLog' = IF r.outcome = "raised"
                         THEN [submitLog EXCEPT ![q].status = 500,
                                                ![q].body = [detail |-> "smtp"]]
                         ELSE submitLog
  /\ UNCHANGED <<store, nextId, smtpConfigured, frontendUrl, confirmLog>>

\* the response of request q is out; its tasks run in the order they were
\* added, and an exception in one ends the run of the rest
RunNotifyAdmin(q, transportUp) ==
  /\ q \in DOMAIN bg
  /\ bg[q] # <<>>
  /\ Head(bg[q]).fn = "notify_admin_waitlist"
  /\ LET r == notify_admin_waitlist(Head(bg[q]).lead, transportUp) IN
       /\ outbox' = r.outbox
       /\ console' = r.console
       /\ taskLog' = [taskLog EXCEPT ![q] = Append(@, [fn |-> "notify_admin_waitlist", outcome |-> r.outcome])]
       /\ bg' = [bg EXCEPT ![q] = IF r.outcome = "raised" THEN <<>> ELSE Tail(bg[q])]
  /\ UNCHANGED <<store, nextId, smtpConfigured, frontendUrl,
                 submitLog, confirmLog>>

RunSendDoubleOptIn(q, transportUp) ==
  /\ q \in DOMAIN bg
  /\ bg[q] # <<>>
  /\ Head(bg[q]).fn = "send_double_opt_in"
  /\ LET r == send_double_opt_in(Head(bg[q]).to, Head(bg[q]).token, transportUp) IN
       /\ outbox' = r.outbox
       /\ console' = r.console
       /\ taskLog' = [taskLog EXCEPT ![q] = Append(@, [fn |-> "send_double_opt_in", outcome |-> r.outcome])]
       /\ bg' = [bg EXCEPT ![q] = IF r.outcome = "raised" THEN <<>> ELSE Tail(bg[q])]
  /\ UNCHANGED <<store, nextId, smtpConfigured, frontendUrl,
                 submitLog, confirmLog>>

\* GET /api/confirm?token=... reaches the server; body is meaningful once the
\* call is done, pendingOnArrival is history for the properties
ConfirmArrive(token) ==
  /\ Len(submitLog) + Len(confirmLog) < MaxRequests
  /\ confirmLog' = Append(confirmLog,
        [token |-> token, state |-> "inflight",
         body |-> [success |-> FALSE, message |-> ""],
         pendingOnArrival |-> HasPending(token)])
  /\ UNCHANGED <<store, nextId, smtpConfigured, frontendUrl,
                 submitLog, bg, outbox, console, taskLog>>

\* the handler runs for call c
ConfirmHandle(c) ==
  /\ c \in DOMAIN confirmLog
  /\ confirmLog[c].state = "inflight"
  /\ LET r == confirm_waitlist(confirmLog[c].token) IN
       /\ store' = r.store
       /\ confirmLog' = [confirmLog EXCEPT ![c] = [@ EXCEPT !.state = "done", !.body = r.body]]
  /\ UNCHANGED <<nextId, smtpConfigured, frontendUrl,
                 submitLog, bg, outbox, console, taskLog>>

Next ==
  \/ \E lead \in Leads, token \in Tokens, dbUp \in BOOLEAN : Submit(lead, token, dbUp)
  \/ \E q \in DOMAIN bg, transportUp \in BOOLEAN : RunNotifyAdmin(q, transportUp)
  \/ \E q \in DOMAIN bg, transportUp \in BOOLEAN : RunSendDoubleOptIn(q, transportUp)
  \/ \E token \in ConfirmInputs : ConfirmArrive(token)
  \/ \E c \in DOMAIN confirmLog : ConfirmHandle(c)

Spec == Init /\ [][Next]_vars

(* ----------------------------- properties ------------------------------ *)

Done(c) == confirmLog[c].state = "done"

\* the step runs the handler of call c
Handled(c) ==
  /\ c \in DOMAIN confirmLog
  /\ confirmLog[c].state = "inflight"
  /\ confirmLog'[c].state = "done"

OptInSubject == "Bitte bestaetige deine Anmeldung"
Delivered == BagToSet(outbox) \cup BagToSet(console)

\* C1: the first confirm(t) for a pending record with token t makes that
\* record confirmed with confirmed_at set, and a later confirm(t) answers
\* success = false and confirms nothing.
C1_ConfirmOnceThenNegative ==
  [][\A c \in DOMAIN confirmLog : Handled(c) =>
       LET t == confirmLog[c].token IN
       /\ HasPending(t) =>
            \E id \in DOMAIN store :
              /\ store[id].confirm_token = t /\ store[id].status = "pending"
              /\ store'[id].status = "confirmed"
              /\ store'[id].confirmed_at # None
       /\ (\E d \in DOMAIN confirmLog :
              d # c /\ Done(d) /\ confirmLog[d].token = t /\ confirmLog[d].pendingOnArrival)
            => /\ confirmLog'[c].body.success = FALSE
               /\ \A id \in DOMAIN store : store[id].status = "confirmed" => store'[id] = store[id]
     ]_vars

\* C2: of the confirm calls in flight together with the same token of a
\* pending record, exactly one reports success and the others report failure.
C2_ExactlyOneConcurrentSuccess ==
  [][\A d \in DOMAIN confirmLog : Handled(d) =>
       LET t == confirmLog[d].token
           Rivals == { c \in DOMAIN confirmLog :
                         /\ c > d /\ Done(c) /\ confirmLog[c].token = t
                         /\ confirmLog[c].pendingOnArrival }
       IN  confirmLog[d].pendingOnArrival =>
             /\ (\E c \in Rivals : confirmLog[c].body.success) => ~confirmLog'[d].body.success
             /\ (Rivals = {} /\ HasPending(t)) => confirmLog'[d].body.success
     ]_vars

\* C3: confirm with a token that matches no pending record answers
\* success = false.
C3_UnknownTokenNegative ==
  [][\A c \in DOMAIN confirmLog :
       (Handled(c) /\ ~HasPending(confirmLog[c].token))
         => confirmLog'[c].body.success = FALSE
     ]_vars

\* C4: a submit whose store write succeeded answers 200 {success: true, id}
\* with a non-empty id no other submit got, and the store holds under that id
\* a pending record with the token generated in that call and no confirmed_at.
C4_SubmitCreatesPending ==
  \A q \in DOMAIN submitLog :
    LET e == submitLog[q] IN
    e.created # <<>> =>
      /\ e.status = 200
      /\ e.body.success = TRUE
      /\ e.body.id # <<>>
      /\ e.body.id = e.created
      /\ \A p \in DOMAIN submitLog :
           (p # q /\ submitLog[p].status = 200) => submitLog[p].body.id # e.body.id
      /\ e.body.id \in DOMAIN store
      /\ e.token \in Seq(TokenChars)
      /\ store[e.body.id].status = "pending"
      /\ store[e.body.id].confirm_token = e.token
      /\ store[e.body.id].confirmed_at = None

C4_Witness ==
  \E q, p \in DOMAIN submitLog :
    /\ q # p
    /\ submitLog[q].created # <<>>
    /\ submitLog[p].created # <<>>
    /\ submitLog[q].lead = submitLog[p].lead

\* C5: once notifications of a submit have run, whatever their outcome, the
\* response of that submit is still success with the id of the created
\* record, and the record is as it was created.
C5_NotificationOutcomeIrrelevant ==
  \A q \in DOMAIN submitLog :
    LET e == submitLog[q] IN
    (e.created # <<>> /\ taskLog[q] # <<>>) =>
      /\ e.status = 200
      /\ e.body = [success |-> TRUE, id |-> e.created, double_opt_in |-> TRUE]
      /\ e.created \in DOMAIN store
      /\ store[e.created] = LeadDocument(e.lead, e.token)

C5_Witness ==
  \E q, p \in DOMAIN submitLog :
    /\ submitLog[q].status = 200 /\ submitLog[p].status = 200
    /\ \E i \in DOMAIN taskLog[q] : taskLog[q][i].outcome = "raised"
    /\ Len(taskLog[p]) = 2 /\ taskLog[p][2].outcome = "sent"

\* C6: a submit whose record creation failed answers 500 with a detail
\* string, never a success body with an id.
C6_StoreFailureIs500 ==
  \A q \in DOMAIN submitLog :
    LET e == submitLog[q] IN
    e.created = <<>> =>
      /\ e.status = 500
      /\ DOMAIN e.body = {"detail"}

C6_Witness ==
  \E q \in DOMAIN submitLog : submitLog[q].created = <<>> /\ submitLog[q].status = 500

\* C7: a notification never ends by raising: a transport failure is turned
\* into a console record and the operation returns normally.
C7_NotificationNeverRaises ==
  \A q \in DOMAIN taskLog : \A i \in DOMAIN taskLog[q] :
    taskLog[q][i].outcome # "raised"

\* C8: every record has confirmed_at set exactly when its status is
\* confirmed.
C8_ConfirmedAtIffConfirmed ==
  \A id \in DOMAIN store :
    (store[id].confirmed_at # None) <=> (store[id].status = "confirmed")

C8_Witness ==
  \E id \in DOMAIN store : \E c \in DOMAIN confirmLog :
    /\ Done(c)
    /\ confirmLog[c].pendingOnArrival
    /\ confirmLog[c].token = store[id].confirm_token

\* C9: a confirm call whose token matches no pending record leaves the
\* record set as it was.
C9_FailedConfirmLeavesStore ==
  [][\A c \in DOMAIN confirmLog :
       (Handled(c) /\ ~HasPending(confirmLog[c].token)) => store' = store
     ]_vars

C9_Witness ==
  /\ DOMAIN store # {}
  /\ \E c \in DOMAIN confirmLog :
       /\ Done(c)
       /\ ~confirmLog[c].pendingOnArrival
       /\ ~HasPending(confirmLog[c].token)

\* C10: every notification enqueued or delivered belongs to a record that is
\* in the store, the opt-in link carries the record's confirm_token, and a
\* submit whose record creation failed enqueues nothing.
C10_NotifyOnlyAfterCreate ==
  /\ \A q \in DOMAIN submitLog :
       /\ submitLog[q].created = <<>> => (bg[q] = <<>> /\ taskLog[q] = <<>>)
       /\ \A i \in DOMAIN bg[q] :
            /\ submitLog[q].created \in DOMAIN store
            /\ bg[q][i].fn = "notify_admin_waitlist"
                 => bg[q][i].lead = store[submitLog[q].created].lead
            /\ bg[q][i].fn = "send_double_opt_in"
                 => /\ bg[q][i].to = store[submitLog[q].created].lead.email
                    /\ bg[q][i].token = store[submitLog[q].created].confirm_token
  /\ \A m \in Delivered :
       IF m.subject = OptInSubject
         THEN \E id \in DOMAIN store :
                /\ store[id].lead.email = m.to
                /\ store[id].confirm_token = m.body.token
         ELSE \E id \in DOMAIN store : admin_body(store[id].lead) = m.body

C10_Witness ==
  /\ \E q \in DOMAIN submitLog : submitLog[q].created = <<>>
  /\ \E m \in BagToSet(outbox) : m.subject = OptInSubject /\ frontendUrl
  /\ \E m \in BagToSet(outbox) : m.subject # OptInSubject

====
